---- MODULE Spec2Model ----
(***************************************************************************)
(* Model of videoHandler (source/videoHandler.cpp): the frame cache, the   *)
(* registry of frames being cached, the producer's shared request buffer   *)
(* and the current-frame slot, driven by one GUI/renderer thread and       *)
(* NumWorkers caching threads.                                             *)
(*                                                                         *)
(* Threads.  The videoHandler is a QObject living in the GUI thread.       *)
(* drawFrame, calculateDifference, invalidateAllBuffers,                   *)
(* slotVideoControlChanged, removefromCache, timerEvent and the slot       *)
(* connected to cachingTimerStart run on that thread, one after the other; *)
(* cacheFrame runs on a worker thread.  A cachingTimerStart emitted by a   *)
(* worker is a queued call that the GUI thread delivers later; one emitted *)
(* on the GUI thread is a direct call.                                     *)
(*                                                                         *)
(* Granularity.  A critical section of imageCacheAccess is one step (the   *)
(* mutex is a leaf and nothing blocks inside).  cachingFramesMuticesAccess,*)
(* the per-frame mutexes and requestDataMutex are explicit, because        *)
(* threads block on them while holding other locks.  A handler of the GUI  *)
(* thread is cut wherever a worker can see or change what it works on:     *)
(* invalidateAllBuffers and slotVideoControlChanged before their           *)
(* clearCache, loadFrame at each of its reads of the request buffer.       *)
(***************************************************************************)
EXTENDS Integers, Sequences, FiniteSets, TLC

\* ------------------------------------------------------------------ bounds
NumFrames   == 2      \* frame indices 0 .. NumFrames-1
NumGeoms    == 2      \* frame geometries 1 .. NumGeoms
NumWorkers  == 2      \* caching threads
MaxCalls    == 2      \* calls of the handler surface in one behaviour
TimerTicks  == 1      \* clock ticks that make up the timer interval

Frames   == 0 .. (NumFrames - 1)
Geoms    == 1 .. NumGeoms
Workers  == 1 .. NumWorkers
Renderer == 0
Threads  == {Renderer} \cup Workers
Free     == -1                       \* owner of an unlocked mutex

\* A decoded image: the frame it shows and the geometry it was decoded at.
Image(i, g) == [frame |-> i, geom |-> g]
NullImage   == Image(-1, 0)          \* QImage(): isNull()
isNull(img) == img = NullImage

\* An emitted signal (or canvas call) with two integer arguments.
Sig(name, a, b) == [sig |-> name, a |-> a, b |-> b]

VARIABLES
  \* --- videoHandler members
  currentImage, currentImageIdx, currentImage_frameIndex, loadingInBackground,
  imageCache,               \* QMap<int,QImage>: function on the cached indices
  cachingFramesMutices,     \* QMap<int,QMutex*>: index -> owner of its mutex
  cachingFramesMuticesAccess, \* owner of the registry mutex
  requestDataMutex,         \* owner of the producer gate
  requestedFrame, requestedFrame_idx,
  frameSize,                \* frameHandler::frameSize
  timerActive, timerLeft,   \* cachingTimer
  pendingStart,             \* queued cachingTimerStart calls not yet delivered
  \* --- threads
  rpc, rFrame,              \* GUI thread: position in its call, the call's frame index
  rCall,                    \* GUI thread: the call that is running ("none": event loop)
  wpc, wFrame, cacheImage,  \* workers: position in cacheFrame, frameIdx, local
  \* --- observation
  emitted,                  \* per thread: signals emitted by its current/last call
  callsLeft,                \* calls of the handler surface still allowed
  framesNamed,              \* the indices below this one were named by a call
  rEntryInflight,           \* drawFrame was called for a registered frame, not current, not cached
  rWaited,                  \* this drawFrame waited on a caching mutex
  rAlone,                   \* no cacheFrame call was executing since the GUI thread's call began
  rRetry,                   \* the GUI thread's last call was a drawFrame of this frame that the producer deferred
  wEntryInflight,           \* frameIdx was registered when cacheFrame was called
  armsInWindow,             \* arms since the timer started: 0 none, 1 one, 2 several
  growthPending,            \* a frame was cached and no notification followed yet
  producerFailed,           \* some request of a frame was not answered so far
  returnedCached,           \* some cacheFrame call found its frame in the cache
  sinceInvalidate           \* invalidateAllBuffers returned; no cacheFrame or drawFrame was called since

hvars == <<currentImage, currentImageIdx, currentImage_frameIndex, loadingInBackground,
           imageCache, cachingFramesMutices, cachingFramesMuticesAccess,
           requestDataMutex, requestedFrame, requestedFrame_idx, frameSize>>
tvars == <<timerActive, timerLeft, pendingStart, armsInWindow>>
rvars == <<rpc, rFrame, rCall, rEntryInflight, rWaited, rAlone, rRetry>>
wvars == <<wpc, wFrame, cacheImage, wEntryInflight>>
ovars == <<growthPending, producerFailed, returnedCached, sinceInvalidate>>
vars  == <<hvars, tvars, rvars, wvars, emitted, callsLeft, framesNamed, ovars>>

\* ------------------------------------------------------------ construction
\* videoHandler::videoHandler sets currentImageIdx, currentImage_frameIndex
\* and loadingInBackground; requestedFrame_idx is not assigned there, so its
\* first value is any index or -1.
Init ==
  /\ currentImage = NullImage
  /\ currentImageIdx = -1
  /\ currentImage_frameIndex = -1
  /\ loadingInBackground = FALSE
  /\ imageCache = <<>>
  /\ cachingFramesMutices = <<>>
  /\ cachingFramesMuticesAccess = Free
  /\ requestDataMutex = Free
  /\ requestedFrame = NullImage
  /\ requestedFrame_idx \in {-1} \cup Frames
  /\ frameSize = 1
  /\ timerActive = FALSE
  /\ timerLeft = 0
  /\ pendingStart = 0
  /\ rpc = "idle"
  /\ rFrame = -1
  /\ rCall = "none"
  /\ wpc = [w \in Workers |-> "idle"]
  /\ wFrame = [w \in Workers |-> -1]
  /\ cacheImage = [w \in Workers |-> NullImage]
  /\ emitted = [t \in Threads |-> <<>>]
  /\ callsLeft = MaxCalls
  /\ framesNamed = 0
  /\ rEntryInflight = FALSE
  /\ rWaited = FALSE
  /\ rAlone = FALSE
  /\ rRetry = FALSE
  /\ wEntryInflight = [w \in Workers |-> FALSE]
  /\ armsInWindow = 0
  /\ growthPending = FALSE
  /\ producerFailed = FALSE
  /\ returnedCached = FALSE
  /\ sinceInvalidate = FALSE

\* ------------------------------------------------------------------ helpers
isInCache(idx) == idx \in DOMAIN imageCache

\* QMap::insert / remove / clear on imageCache
CacheInsert(c, i, img) == [k \in (DOMAIN c) \cup {i} |-> IF k = i THEN img ELSE c[k]]

\* (variant: remove drops every entry)
CacheRemove_all(c, i) == <<>>
CacheRemove(c, i) == [k \in (DOMAIN c) \ {i} |-> c[k]]

\* (variant: the cache is left as it is)
clearCache_kept == imageCache' = imageCache
clearCache == imageCache' = <<>>

\* (variant: the image is promoted, its index is not)
makeCachedFrameCurrent_imageOnly(frameIdx) ==
  IF isInCache(frameIdx)
    THEN /\ currentImage' = imageCache[frameIdx]
         /\ UNCHANGED currentImageIdx
    ELSE UNCHANGED <<currentImage, currentImageIdx>>
\* makeCachedFrameCurrent: promote the cache entry into the current-frame slot.
makeCachedFrameCurrent(frameIdx) ==
  IF isInCache(frameIdx)
    THEN /\ currentImage' = imageCache[frameIdx]
         /\ currentImageIdx' = frameIdx
    ELSE UNCHANGED <<currentImage, currentImageIdx>>

\* The producer answering signalRequestFrame(frameIndex, caching): it fills the
\* shared buffer at the current geometry (ok), or leaves it as it was.
request_frame(frameIndex, ok) ==
  IF ok
    THEN /\ requestedFrame' = Image(frameIndex, frameSize)
         /\ requestedFrame_idx' = frameIndex
    ELSE UNCHANGED <<requestedFrame, requestedFrame_idx>>

\* (variant: the timer is started again although it is running)
TimerAfterStart_restart == <<TRUE, TimerTicks>>
\* (variant: the test of isActive is inverted)
TimerAfterStart_inverted ==
  IF timerActive THEN <<TRUE, TimerTicks>> ELSE <<timerActive, timerLeft>>
\* The slot connected to cachingTimerStart: start the single-shot timer unless
\* it is running.
TimerAfterStart ==
  IF timerActive THEN <<timerActive, timerLeft>> ELSE <<TRUE, TimerTicks>>

\* drawFrame lines 98-107: loadingInBackground and the blit of currentImage;
\* drawFrame returns and its locals are gone.
drawFrame_paint(frameIdx, sofar) ==
  /\ loadingInBackground' = (currentImageIdx' # frameIdx)
  /\ rpc' = "idle"
  /\ rFrame' = -1
  /\ rCall' = "none"
  /\ rEntryInflight' = FALSE
  /\ rWaited' = FALSE
  /\ rAlone' = FALSE
  /\ rRetry' = FALSE
  /\ emitted' = [emitted EXCEPT ![Renderer] =
                   Append(sofar, Sig("drawImage", currentImage'.frame, currentImage'.geom))]

GuiIdle == rpc = "idle"

\* The signals of the GUI thread's last call are those of a drawFrame(frameIdx)
\* that requested the frame in the foreground and did not get it.
Deferred(frameIdx) ==
  /\ Len(emitted[Renderer]) = 2
  /\ emitted[Renderer][1] = Sig("signalRequestFrame", frameIdx, 0)
  /\ emitted[Renderer][2].sig = "drawImage"
  /\ currentImageIdx # frameIdx
CanCall == callsLeft > 0

\* A call that names frame idx (removefromCache: or -1).
NameFrame(idx) ==
  framesNamed' = IF idx >= framesNamed THEN idx + 1 ELSE framesNamed

\* The code tells frame indices apart and does nothing else with them (-1
\* aside), so behaviours that differ only in the names of their frames are one
\* behaviour.  The calls are enumerated up to that renaming: a call names a
\* frame that an earlier call named, or the least index that none did.
FramesToName == {i \in Frames : i <= framesNamed}

\* ------------------------------------------------- drawFrame (GUI thread)
\* Lines 67-75 and 98-107: the call, the test of currentImageIdx and the first
\* makeCachedFrameCurrent.  A hit (or an unchanged index) finishes the call.
drawFrame_begin(frameIdx) ==
  /\ GuiIdle /\ CanCall
  /\ callsLeft' = callsLeft - 1
  /\ NameFrame(frameIdx)
  /\ sinceInvalidate' = FALSE
  /\ IF frameIdx = currentImageIdx
       THEN /\ UNCHANGED <<currentImage, currentImageIdx>>
            /\ drawFrame_paint(frameIdx, <<>>)
       ELSE IF isInCache(frameIdx)
         THEN /\ makeCachedFrameCurrent(frameIdx)
              /\ drawFrame_paint(frameIdx, <<>>)
         ELSE /\ UNCHANGED <<currentImage, currentImageIdx, loadingInBackground>>
              /\ emitted' = [emitted EXCEPT ![Renderer] = <<>>]
              /\ rpc' = "lockRegistry"
              /\ rFrame' = frameIdx
              /\ rCall' = "drawFrame"
              /\ rEntryInflight' = (frameIdx \in DOMAIN cachingFramesMutices)
              /\ rWaited' = FALSE
              /\ rAlone' = \A w \in Workers : wpc[w] = "idle"
              /\ rRetry' = Deferred(frameIdx)
  /\ UNCHANGED <<currentImage_frameIndex, imageCache, cachingFramesMutices,
                 cachingFramesMuticesAccess, requestDataMutex, requestedFrame,
                 requestedFrame_idx, frameSize, tvars, wvars, growthPending, producerFailed, returnedCached>>

\* Lines 77-78, 92: lock the registry mutex and look the frame up.  When the
\* frame is registered the registry mutex stays locked.
drawFrame_checkRegistry ==
  /\ rpc = "lockRegistry"
  /\ cachingFramesMuticesAccess = Free
  /\ IF rFrame \in DOMAIN cachingFramesMutices
       THEN /\ cachingFramesMuticesAccess' = Renderer
            /\ rpc' = "waitCaching"
       ELSE /\ UNCHANGED cachingFramesMuticesAccess
            /\ rpc' = "loadFrame"
  /\ UNCHANGED <<currentImage, currentImageIdx, currentImage_frameIndex,
                 loadingInBackground, imageCache, cachingFramesMutices,
                 requestDataMutex, requestedFrame, requestedFrame_idx, frameSize,
                 tvars, rFrame, rCall, rEntryInflight, rWaited, rAlone, rRetry, wvars,
                 emitted, callsLeft, framesNamed, growthPending, producerFailed, returnedCached,
                 sinceInvalidate>>

\* Lines 83-85: lock and unlock the frame's mutex (blocks while the caching
\* thread holds it), then unlock the registry mutex.
drawFrame_waitCaching ==
  /\ rpc = "waitCaching"
  /\ cachingFramesMutices[rFrame] = Free
  /\ cachingFramesMuticesAccess' = Free
  /\ rWaited' = TRUE
  /\ rpc' = "recheck"
  /\ UNCHANGED <<currentImage, currentImageIdx, currentImage_frameIndex,
                 loadingInBackground, imageCache, cachingFramesMutices,
                 requestDataMutex, requestedFrame, requestedFrame_idx, frameSize,
                 tvars, rFrame, rCall, rEntryInflight, rAlone, rRetry, wvars,
                 emitted, callsLeft, framesNamed, growthPending, producerFailed, returnedCached,
                 sinceInvalidate>>

\* Lines 88, 98-107: the second makeCachedFrameCurrent, then the blit.
drawFrame_afterWait ==
  /\ rpc = "recheck"
  /\ makeCachedFrameCurrent(rFrame)
  /\ drawFrame_paint(rFrame, emitted[Renderer])
  /\ UNCHANGED <<currentImage_frameIndex, imageCache, cachingFramesMutices,
                 cachingFramesMuticesAccess, requestDataMutex, requestedFrame,
                 requestedFrame_idx, frameSize, tvars, wvars, callsLeft, framesNamed,
                 growthPending, producerFailed, returnedCached,
                 sinceInvalidate>>

\* loadFrame line 263: the test of requestedFrame_idx, made without the gate.
loadFrame_check ==
  /\ rpc = "loadFrame"
  /\ rpc' = IF requestedFrame_idx # rFrame THEN "lockRequest" ELSE "copyRequested"
  /\ UNCHANGED <<hvars, tvars, rFrame, rCall, rEntryInflight, rWaited, rAlone, rRetry, wvars,
                 emitted, callsLeft, framesNamed, growthPending, producerFailed, returnedCached,
                 sinceInvalidate>>

\* loadFrame line 266: lock requestDataMutex.
loadFrame_lock ==
  /\ rpc = "lockRequest"
  /\ requestDataMutex = Free
  /\ requestDataMutex' = Renderer
  /\ rpc' = "request"
  /\ UNCHANGED <<currentImage, currentImageIdx, currentImage_frameIndex,
                 loadingInBackground, imageCache, cachingFramesMutices,
                 cachingFramesMuticesAccess, requestedFrame, requestedFrame_idx,
                 frameSize, tvars, rFrame, rCall, rEntryInflight, rWaited, rAlone, rRetry,
                 wvars, emitted, callsLeft, framesNamed, growthPending, producerFailed, returnedCached,
                 sinceInvalidate>>

\* loadFrame returns to its caller: to drawFrame's blit (line 98), to the
\* second loadFrame of calculateDifference (line 127), or to the end of
\* calculateDifference's work on this handler.
loadFrame_return(sofar) ==
  IF rCall = "drawFrame"
    THEN drawFrame_paint(rFrame, sofar)
    ELSE /\ emitted' = [emitted EXCEPT ![Renderer] = sofar]
         /\ UNCHANGED <<loadingInBackground, rEntryInflight, rWaited, rAlone, rRetry>>
         /\ IF rCall = "calculateDifference126"
              THEN /\ rpc' = "loadFrame"
                   /\ rCall' = "calculateDifference127"
                   /\ UNCHANGED rFrame
              ELSE /\ rpc' = "idle"
                   /\ rCall' = "none"
                   /\ rFrame' = -1

\* (variant: a request that was not answered counts as answered)
loadFrame_failed_never(frameIndex) == FALSE
\* loadFrame line 271: after the request, the frame was not loaded.
loadFrame_failed(frameIndex) == requestedFrame_idx' # frameIndex

\* loadFrame lines 269-274: emit signalRequestFrame(frameIndex, false), test
\* requestedFrame_idx again; the locker's scope ends here, so the gate is
\* released on both paths.  A failed request returns to loadFrame's caller.
loadFrame_request(ok) ==
  /\ rpc = "request"
  /\ request_frame(rFrame, ok)
  /\ requestDataMutex' = Free
  /\ producerFailed' = (producerFailed \/ ~ok)
  /\ LET sofar == Append(emitted[Renderer], Sig("signalRequestFrame", rFrame, 0))
     IN IF loadFrame_failed(rFrame)
          THEN /\ UNCHANGED <<currentImage, currentImageIdx>>
               /\ loadFrame_return(sofar)
          ELSE /\ UNCHANGED <<currentImage, currentImageIdx, loadingInBackground,
                              rFrame, rCall, rEntryInflight, rWaited, rAlone, rRetry>>
               /\ emitted' = [emitted EXCEPT ![Renderer] = sofar]
               /\ rpc' = "copyRequested"
  /\ UNCHANGED <<currentImage_frameIndex, imageCache, cachingFramesMutices,
                 cachingFramesMuticesAccess, frameSize, tvars, wvars, callsLeft, framesNamed,
                 growthPending, returnedCached,
                 sinceInvalidate>>

\* loadFrame lines 277-278: copy the shared buffer into the current-frame slot
\* (the gate is not held) and return to the caller.
loadFrame_copy ==
  /\ rpc = "copyRequested"
  /\ currentImage' = requestedFrame
  /\ currentImageIdx' = rFrame
  /\ loadFrame_return(emitted[Renderer])
  /\ UNCHANGED <<currentImage_frameIndex, imageCache, cachingFramesMutices,
                 cachingFramesMuticesAccess, requestDataMutex, requestedFrame,
                 requestedFrame_idx, frameSize, tvars, wvars, callsLeft, framesNamed,
                 growthPending, producerFailed, returnedCached,
                 sinceInvalidate>>

\* ------------------------------------- calculateDifference (GUI thread)
\* Lines 116-127, item2 being a videoHandler: loadFrame(frame) when the frame
\* is not current (line 126), and loadFrame(frame) in any case (line 127); the
\* pixels are then compared by frameHandler::calculateDifference.
calculateDifference(frame) ==
  /\ GuiIdle /\ CanCall
  /\ callsLeft' = callsLeft - 1
  /\ NameFrame(frame)
  /\ rpc' = "loadFrame"
  /\ rFrame' = frame
  /\ rCall' = IF currentImageIdx # frame THEN "calculateDifference126"
                                         ELSE "calculateDifference127"
  /\ emitted' = [emitted EXCEPT ![Renderer] = <<>>]
  /\ UNCHANGED <<hvars, tvars, rEntryInflight, rWaited, rAlone, rRetry, wvars, ovars>>

\* Lines 128-129: this handler is item2 of another handler's
\* calculateDifference: loadFrame(frame) when the frame is not current.
calculateDifference_item2(frame) ==
  /\ GuiIdle /\ CanCall
  /\ currentImageIdx # frame
  /\ callsLeft' = callsLeft - 1
  /\ NameFrame(frame)
  /\ rpc' = "loadFrame"
  /\ rFrame' = frame
  /\ rCall' = "calculateDifference129"
  /\ emitted' = [emitted EXCEPT ![Renderer] = <<>>]
  /\ UNCHANGED <<hvars, tvars, rEntryInflight, rWaited, rAlone, rRetry, wvars, ovars>>

\* ---------------------------------------------- cacheFrame (worker thread)
\* (variant: the frame is cached again although it is in the cache)
cacheFrame_isInCache_skipped(frameIdx) == "lockRegistry"
\* Lines 162-167: return when the frame is in the cache.
cacheFrame_isInCache(frameIdx) ==
  IF isInCache(frameIdx) THEN "idle" ELSE "lockRegistry"

\* Lines 158-167: the call and the isInCache test.  The caching threads are
\* interchangeable: the scheduler hands the call to the first idle one.
cacheFrame_begin(w, frameIdx) ==
  /\ wpc[w] = "idle" /\ CanCall
  /\ \A v \in Workers : v < w => wpc[v] # "idle"
  /\ callsLeft' = callsLeft - 1
  /\ NameFrame(frameIdx)
  /\ wpc' = [wpc EXCEPT ![w] = cacheFrame_isInCache(frameIdx)]
  /\ IF wpc'[w] = "idle"
       THEN /\ returnedCached' = TRUE
            /\ UNCHANGED <<wFrame, wEntryInflight>>
       ELSE /\ wFrame' = [wFrame EXCEPT ![w] = frameIdx]
            /\ wEntryInflight' = [wEntryInflight EXCEPT ![w] =
                                    (frameIdx \in DOMAIN cachingFramesMutices)]
            /\ UNCHANGED returnedCached
  /\ rAlone' = FALSE
  /\ sinceInvalidate' = FALSE
  /\ UNCHANGED <<hvars, tvars, rpc, rFrame, rCall, rEntryInflight, rWaited, rRetry,
                 cacheImage, emitted, growthPending, producerFailed>>

\* Lines 170-180: under the registry mutex, return when the frame is
\* registered, else register a new locked mutex for it.
cacheFrame_register(w) ==
  /\ wpc[w] = "lockRegistry"
  /\ cachingFramesMuticesAccess = Free
  /\ IF wFrame[w] \in DOMAIN cachingFramesMutices
       THEN /\ UNCHANGED cachingFramesMutices
            /\ wpc' = [wpc EXCEPT ![w] = "idle"]
            /\ wFrame' = [wFrame EXCEPT ![w] = -1]
            /\ wEntryInflight' = [wEntryInflight EXCEPT ![w] = FALSE]
       ELSE /\ cachingFramesMutices' =
                 [k \in (DOMAIN cachingFramesMutices) \cup {wFrame[w]} |->
                    IF k = wFrame[w] THEN w ELSE cachingFramesMutices[k]]
            /\ wpc' = [wpc EXCEPT ![w] = "lockRequest"]
            /\ UNCHANGED <<wFrame, wEntryInflight>>
  /\ UNCHANGED <<currentImage, currentImageIdx, currentImage_frameIndex,
                 loadingInBackground, imageCache, cachingFramesMuticesAccess,
                 requestDataMutex, requestedFrame, requestedFrame_idx, frameSize,
                 tvars, rvars, cacheImage, emitted, callsLeft, framesNamed, ovars>>

\* loadFrameForCaching line 285: lock requestDataMutex.
loadFrameForCaching_lock(w) ==
  /\ wpc[w] = "lockRequest"
  /\ requestDataMutex = Free
  /\ requestDataMutex' = w
  /\ wpc' = [wpc EXCEPT ![w] = "request"]
  /\ UNCHANGED <<currentImage, currentImageIdx, currentImage_frameIndex,
                 loadingInBackground, imageCache, cachingFramesMutices,
                 cachingFramesMuticesAccess, requestedFrame, requestedFrame_idx,
                 frameSize, tvars, rvars, wFrame, cacheImage, wEntryInflight,
                 emitted, callsLeft, framesNamed, growthPending, producerFailed, returnedCached,
                 sinceInvalidate>>

\* loadFrameForCaching line 288: emit signalRequestFrame(frameIndex, true); the
\* producer answers inside the emit.  The gate stays locked.
loadFrameForCaching_request(w, ok) ==
  /\ wpc[w] = "request"
  /\ request_frame(wFrame[w], ok)
  /\ emitted' = [emitted EXCEPT ![w] = Append(@, Sig("signalRequestFrame", wFrame[w], 1))]
  /\ producerFailed' = (producerFailed \/ ~ok)
  /\ wpc' = [wpc EXCEPT ![w] = "checkRequested"]
  /\ UNCHANGED <<currentImage, currentImageIdx, currentImage_frameIndex,
                 loadingInBackground, imageCache, cachingFramesMutices,
                 cachingFramesMuticesAccess, requestDataMutex, frameSize, tvars,
                 rvars, wFrame, cacheImage, wEntryInflight, callsLeft, framesNamed,
                 growthPending, returnedCached,
                 sinceInvalidate>>

\* (variant: the buffer is copied out whatever index it holds)
loadFrameForCaching_image_unchecked(frameIndex) == requestedFrame
\* loadFrameForCaching lines 290-294: frameToCache after the request; it stays
\* null when requestedFrame_idx is not the index asked for.
loadFrameForCaching_image(frameIndex) ==
  IF requestedFrame_idx # frameIndex THEN NullImage ELSE requestedFrame

\* loadFrameForCaching lines 290-295: test requestedFrame_idx, copy the buffer
\* out when it is the index asked for, and unlock the gate.
loadFrameForCaching_copy(w) ==
  /\ wpc[w] = "checkRequested"
  /\ cacheImage' = [cacheImage EXCEPT ![w] = loadFrameForCaching_image(wFrame[w])]
  /\ requestDataMutex' = Free
  /\ wpc' = [wpc EXCEPT ![w] = "insert"]
  /\ UNCHANGED <<currentImage, currentImageIdx, currentImage_frameIndex,
                 loadingInBackground, imageCache, cachingFramesMutices,
                 cachingFramesMuticesAccess, requestedFrame, requestedFrame_idx,
                 frameSize, tvars, rvars, wFrame, wEntryInflight, emitted,
                 callsLeft, framesNamed, ovars>>

\* Lines 187-192: insert the image into the cache unless it is null.
cacheFrame_insert(w) ==
  /\ wpc[w] = "insert"
  /\ IF ~isNull(cacheImage[w])
       THEN /\ imageCache' = CacheInsert(imageCache, wFrame[w], cacheImage[w])
            /\ growthPending' = TRUE
       ELSE UNCHANGED <<imageCache, growthPending>>
  /\ wpc' = [wpc EXCEPT ![w] = "unlockFrame"]
  /\ UNCHANGED <<currentImage, currentImageIdx, currentImage_frameIndex,
                 loadingInBackground, cachingFramesMutices,
                 cachingFramesMuticesAccess, requestDataMutex, requestedFrame,
                 requestedFrame_idx, frameSize, tvars, rvars, wFrame, cacheImage,
                 wEntryInflight, emitted, callsLeft, framesNamed, producerFailed, returnedCached,
                 sinceInvalidate>>

\* (variant: the frame's mutex stays locked while the registry mutex is taken)
cacheFrame_unlock_late(w) ==
  /\ wpc[w] = "unlockFrame"
  /\ wpc' = [wpc EXCEPT ![w] = "relockRegistry"]
  /\ UNCHANGED <<hvars, tvars, rvars, wFrame, cacheImage, wEntryInflight, emitted,
                 callsLeft, framesNamed, ovars>>
\* Line 195: unlock the frame's mutex.
cacheFrame_unlock(w) ==
  /\ wpc[w] = "unlockFrame"
  /\ cachingFramesMutices' = [cachingFramesMutices EXCEPT ![wFrame[w]] = Free]
  /\ wpc' = [wpc EXCEPT ![w] = "relockRegistry"]
  /\ UNCHANGED <<currentImage, currentImageIdx, currentImage_frameIndex,
                 loadingInBackground, imageCache, cachingFramesMuticesAccess,
                 requestDataMutex, requestedFrame, requestedFrame_idx, frameSize,
                 tvars, rvars, wFrame, cacheImage, wEntryInflight, emitted,
                 callsLeft, framesNamed, growthPending, producerFailed, returnedCached,
                 sinceInvalidate>>

\* Lines 196-203: under the registry mutex take the frame out of the registry,
\* then emit cachingTimerStart (a queued call: the handler lives in the GUI
\* thread); cacheFrame returns and its locals are gone.
cacheFrame_deregister(w) ==
  /\ wpc[w] = "relockRegistry"
  /\ cachingFramesMuticesAccess = Free
  /\ cachingFramesMutices' =
       [k \in (DOMAIN cachingFramesMutices) \ {wFrame[w]} |-> cachingFramesMutices[k]]
  /\ pendingStart' = pendingStart + 1
  /\ wpc' = [wpc EXCEPT ![w] = "idle"]
  /\ wFrame' = [wFrame EXCEPT ![w] = -1]
  /\ cacheImage' = [cacheImage EXCEPT ![w] = NullImage]
  /\ wEntryInflight' = [wEntryInflight EXCEPT ![w] = FALSE]
  /\ emitted' = [emitted EXCEPT ![w] = <<>>]
  /\ UNCHANGED <<currentImage, currentImageIdx, currentImage_frameIndex,
                 loadingInBackground, imageCache, cachingFramesMuticesAccess,
                 requestDataMutex, requestedFrame, requestedFrame_idx, frameSize,
                 timerActive, timerLeft, armsInWindow, rvars, callsLeft, framesNamed, ovars>>

\* ------------------------------------------- other handlers (GUI thread)
\* Lines 41-46: the slot connected to cachingTimerStart, for a queued call.
cachingTimerStart_slot ==
  /\ GuiIdle
  /\ pendingStart > 0
  /\ pendingStart' = pendingStart - 1
  /\ timerActive' = TimerAfterStart[1]
  /\ timerLeft' = TimerAfterStart[2]
  /\ armsInWindow' = IF timerActive THEN 2 ELSE 1
  /\ emitted' = [emitted EXCEPT ![Renderer] = <<>>]
  /\ UNCHANGED <<hvars, rvars, wvars, callsLeft, framesNamed, growthPending, producerFailed, returnedCached,
                 sinceInvalidate>>

\* The clock: the running timer comes one tick closer to its deadline.
Tick ==
  /\ timerActive
  /\ timerLeft > 0
  /\ timerLeft' = timerLeft - 1
  /\ UNCHANGED <<hvars, timerActive, pendingStart, armsInWindow, rvars, wvars,
                 emitted, callsLeft, framesNamed, growthPending, producerFailed, returnedCached,
                 sinceInvalidate>>

\* Lines 248-257: the event of cachingTimer: stop it and emit
\* signalHandlerChanged(false, false).
timerEvent ==
  /\ GuiIdle
  /\ timerActive
  /\ timerLeft = 0
  /\ timerActive' = FALSE
  /\ emitted' = [emitted EXCEPT ![Renderer] = <<Sig("signalHandlerChanged", 0, 0)>>]
  /\ growthPending' = FALSE
  /\ UNCHANGED <<hvars, timerLeft, pendingStart, armsInWindow, rvars, wvars, callsLeft, framesNamed, producerFailed, returnedCached,
                 sinceInvalidate>>

\* Lines 224-234: removefromCache(idx); idx = -1 clears the cache.  The emit
\* of cachingTimerStart is a direct call of the slot.
removefromCache(idx) ==
  /\ GuiIdle /\ CanCall
  /\ callsLeft' = callsLeft - 1
  /\ NameFrame(idx)
  /\ imageCache' = IF idx = -1 THEN <<>> ELSE CacheRemove(imageCache, idx)
  /\ timerActive' = TimerAfterStart[1]
  /\ timerLeft' = TimerAfterStart[2]
  /\ armsInWindow' = IF timerActive THEN 2 ELSE 1
  /\ emitted' = [emitted EXCEPT ![Renderer] = <<Sig("cachingTimerStart", 0, 0)>>]
  /\ UNCHANGED <<currentImage, currentImageIdx, currentImage_frameIndex,
                 loadingInBackground, cachingFramesMutices,
                 cachingFramesMuticesAccess, requestDataMutex, requestedFrame,
                 requestedFrame_idx, frameSize, pendingStart, rvars, wvars,
                 growthPending, producerFailed, returnedCached,
                 sinceInvalidate>>

\* Lines 297-306: invalidateAllBuffers up to its call of clearCache.
invalidateAllBuffers ==
  /\ GuiIdle /\ CanCall
  /\ callsLeft' = callsLeft - 1
  /\ UNCHANGED framesNamed
  /\ emitted' = [emitted EXCEPT ![Renderer] = <<Sig("signalUpdateFrameLimits", 0, 0)>>]
  /\ currentImageIdx' = -1
  /\ currentImage_frameIndex' = -1
  /\ currentImage' = NullImage
  /\ requestedFrame_idx' = -1
  /\ rpc' = "clearCache"
  /\ rCall' = "invalidateAllBuffers"
  /\ rAlone' = \A w \in Workers : wpc[w] = "idle"
  /\ UNCHANGED <<loadingInBackground, imageCache, cachingFramesMutices,
                 cachingFramesMuticesAccess, requestDataMutex, requestedFrame,
                 frameSize, tvars, rFrame, rEntryInflight, rWaited, rRetry, wvars,
                 ovars>>

\* Line 308: clearCache, under imageCacheAccess; invalidateAllBuffers returns.
invalidateAllBuffers_clearCache ==
  /\ rpc = "clearCache" /\ rCall = "invalidateAllBuffers"
  /\ clearCache
  /\ rpc' = "idle"
  /\ rCall' = "none"
  /\ rAlone' = FALSE
  /\ sinceInvalidate' = rAlone
  /\ UNCHANGED <<currentImage, currentImageIdx, currentImage_frameIndex,
                 loadingInBackground, cachingFramesMutices,
                 cachingFramesMuticesAccess, requestDataMutex, requestedFrame,
                 requestedFrame_idx, frameSize, tvars, rFrame, rEntryInflight,
                 rWaited, rRetry, wvars, emitted, callsLeft, framesNamed,
                 growthPending, producerFailed, returnedCached>>

\* frameHandler::slotVideoControlChanged (base class): the controls set the
\* frame size.
frameHandler_slotVideoControlChanged(newSize) == frameSize' = newSize

\* Lines 49-58: slotVideoControlChanged up to its call of clearCache.
slotVideoControlChanged(newSize) ==
  /\ GuiIdle /\ CanCall
  /\ callsLeft' = callsLeft - 1
  /\ UNCHANGED framesNamed
  /\ frameHandler_slotVideoControlChanged(newSize)
  /\ currentImageIdx' = -1
  /\ emitted' = [emitted EXCEPT ![Renderer] = <<Sig("signalUpdateFrameLimits", 0, 0)>>]
  /\ rpc' = "clearCache"
  /\ rCall' = "slotVideoControlChanged"
  /\ rAlone' = \A w \in Workers : wpc[w] = "idle"
  /\ UNCHANGED <<currentImage, currentImage_frameIndex, loadingInBackground,
                 imageCache, cachingFramesMutices, cachingFramesMuticesAccess,
                 requestDataMutex, requestedFrame, requestedFrame_idx, tvars,
                 rFrame, rEntryInflight, rWaited, rRetry, wvars, ovars>>

\* Lines 61-64: clearCache, under imageCacheAccess, then emit
\* signalHandlerChanged(true, true); slotVideoControlChanged returns.
slotVideoControlChanged_clearCache ==
  /\ rpc = "clearCache" /\ rCall = "slotVideoControlChanged"
  /\ clearCache
  /\ emitted' = [emitted EXCEPT ![Renderer] =
                   Append(@, Sig("signalHandlerChanged", 1, 1))]
  /\ rpc' = "idle"
  /\ rCall' = "none"
  /\ rAlone' = FALSE
  /\ UNCHANGED <<currentImage, currentImageIdx, currentImage_frameIndex,
                 loadingInBackground, cachingFramesMutices,
                 cachingFramesMuticesAccess, requestDataMutex, requestedFrame,
                 requestedFrame_idx, frameSize, tvars, rFrame, rEntryInflight,
                 rWaited, rRetry, wvars, callsLeft, framesNamed, ovars>>

\* ------------------------------------------------------------ specification
drawFrame_step ==
  \/ drawFrame_checkRegistry \/ drawFrame_waitCaching \/ drawFrame_afterWait
  \/ loadFrame_check \/ loadFrame_lock \/ (\E ok \in BOOLEAN : loadFrame_request(ok))
  \/ loadFrame_copy

drawFrame ==
  \/ \E frameIdx \in FramesToName : drawFrame_begin(frameIdx)
  \/ drawFrame_step

cacheFrame_step(w) ==
  \/ cacheFrame_register(w)
  \/ loadFrameForCaching_lock(w)
  \/ \E ok \in BOOLEAN : loadFrameForCaching_request(w, ok)
  \/ loadFrameForCaching_copy(w)
  \/ cacheFrame_insert(w)
  \/ cacheFrame_unlock(w)
  \/ cacheFrame_deregister(w)

cacheFrame(w) ==
  \/ \E frameIdx \in FramesToName : cacheFrame_begin(w, frameIdx)
  \/ cacheFrame_step(w)

Next ==
  \/ drawFrame
  \/ \E frame \in FramesToName : calculateDifference(frame)
  \/ \E frame \in FramesToName : calculateDifference_item2(frame)
  \/ \E w \in Workers : cacheFrame(w)
  \/ cachingTimerStart_slot
  \/ Tick
  \/ timerEvent
  \/ \E idx \in FramesToName \cup {-1} : removefromCache(idx)
  \/ invalidateAllBuffers
  \/ invalidateAllBuffers_clearCache
  \/ \E newSize \in Geoms : slotVideoControlChanged(newSize)
  \/ slotVideoControlChanged_clearCache

Spec == Init /\ [][Next]_vars

\* Threads that are running keep running: every caching thread, and the GUI
\* thread, whose event loop goes on with drawFrame, delivers queued calls and
\* timer events; and time passes.
GuiThread_step ==
  \/ drawFrame_step
  \/ invalidateAllBuffers_clearCache \/ slotVideoControlChanged_clearCache
  \/ cachingTimerStart_slot \/ timerEvent

Fairness ==
  /\ WF_vars(GuiThread_step)
  /\ \A w \in Workers : WF_vars(cacheFrame_step(w))
  /\ WF_vars(Tick)

FairSpec == Init /\ [][Next]_vars /\ Fairness

TypeOK ==
  /\ currentImageIdx \in Frames \cup {-1}
  /\ DOMAIN imageCache \subseteq Frames
  /\ DOMAIN cachingFramesMutices \subseteq Frames
  /\ cachingFramesMuticesAccess \in Threads \cup {Free}
  /\ requestDataMutex \in Threads \cup {Free}
  /\ frameSize \in Geoms
  /\ pendingStart \in 0 .. MaxCalls
  /\ callsLeft \in 0 .. MaxCalls
  /\ framesNamed \in 0 .. NumFrames
  /\ sinceInvalidate \in BOOLEAN

\* ------------------------------------------------------------------ claims
NoCacheFrameInFlight == \A w \in Workers : wpc[w] = "idle"

\* The signals of one kind in a sequence of emitted signals.
Requests(seq, caching) ==
  {k \in 1 .. Len(seq) : seq[k].sig = "signalRequestFrame" /\ seq[k].b = caching}
Debounced(seq) ==
  {k \in 1 .. Len(seq) : seq[k].sig = "signalHandlerChanged" /\ seq[k].a = 0}

\* A party is decoding i from the moment it is committed to emitting
\* signalRequestFrame(i, ..) until the request has returned (the renderer: in
\* the loadFrame of a drawFrame).
RendererDecoding(i) ==
  rCall = "drawFrame" /\ rFrame = i /\ rpc \in {"lockRequest", "request"}
WorkerDecoding(w, i) == wFrame[w] = i /\ wpc[w] \in {"lockRequest", "request"}
Decoding(i) == {t \in Threads : IF t = Renderer THEN RendererDecoding(i)
                                                ELSE WorkerDecoding(t, i)}

\* C1: for every frame index, at most one party (the renderer or a worker)
\* has a decode of that index in progress.
C1_AtMostOneDecode == \A i \in Frames : Cardinality(Decoding(i)) <= 1

\* C2: a cacheFrame(i) call made while i is registered by another worker is
\* ignored (the producer answering every request): it never registers i,
\* requests no frame and inserts nothing.
C2_DuplicateIgnored ==
  \A w \in Workers :
    (wEntryInflight[w] /\ ~producerFailed)
                      => /\ wpc[w] \in {"idle", "lockRegistry"}
                         /\ Requests(emitted[w], 1) = {}

\* C3: once a change of the frame size has cleared the cache (that is, outside
\* slotVideoControlChanged), every image in the cache was decoded at the
\* current frame size.
C3_CacheGeometry ==
  rCall # "slotVideoControlChanged" =>
      \A i \in DOMAIN imageCache : imageCache[i].geom = frameSize

\* C4: a drawFrame(i) called while a worker is caching i (i neither current
\* nor cached, the producer answering every request) waits for the worker,
\* requests no frame in the foreground and returns with the image of i in the
\* current-frame slot.
C4_WaitsForCaching ==
  [][ (rpc # "idle" /\ rpc' = "idle" /\ rEntryInflight /\ ~producerFailed')
        => /\ rWaited
           /\ Requests(emitted'[Renderer], 0) = {}
           /\ currentImageIdx' = rFrame
           /\ currentImage'.frame = rFrame
    ]_vars

\* The GUI thread arms the notifier: the slot runs for a queued call, or
\* directly inside removefromCache.
ArmStep == cachingTimerStart_slot \/ (\E idx \in Frames \cup {-1} : removefromCache(idx))

\* C5: notifications of cache growth are coalesced.  While the timer runs, an
\* arm neither restarts it nor notifies; the timer stops only by expiring;
\* the expiry stops it and emits exactly one signalHandlerChanged(false, ..);
\* and no other step emits one.  So all the arms of one timer interval share
\* one notification.
C5_Coalesced ==
  [][ /\ (timerActive /\ ArmStep) =>
            /\ timerActive' /\ timerLeft' = timerLeft
            /\ Debounced(emitted'[Renderer]) = {}
      /\ (timerActive /\ timerActive') => timerLeft' <= timerLeft
      /\ (timerActive /\ ~timerActive') => timerEvent
      /\ timerEvent => /\ ~timerActive'
                       /\ Cardinality(Debounced(emitted'[Renderer])) = 1
                       /\ Len(emitted'[Renderer]) = 1
      /\ (~timerEvent /\ emitted'[Renderer] # emitted[Renderer])
            => Debounced(emitted'[Renderer]) = {}
    ]_vars

\* Two arms fell into one timer interval, whose expiry was just notified.
C5_Witness ==
  /\ armsInWindow >= 2
  /\ ~timerActive
  /\ emitted[Renderer] = <<Sig("signalHandlerChanged", 0, 0)>>

\* C6: whenever cacheFrame has inserted a frame, a debounced notification is
\* emitted at some later point (threads, event loop and clock being fair).
C6_GrowthNotified == growthPending ~> ~growthPending

\* A worker has just inserted its frame while the timer was running.
C6_Witness ==
  /\ growthPending
  /\ timerActive
  /\ \E w \in Workers : wpc[w] = "unlockFrame" /\ isInCache(wFrame[w])

\* The state invalidateAllBuffers leaves.
Invalidated ==
  /\ imageCache = <<>>
  /\ currentImage = NullImage
  /\ currentImageIdx = -1
  /\ requestedFrame_idx = -1

\* A call that loads a frame begins.
CallStep ==
  \/ \E frameIdx \in Frames : drawFrame_begin(frameIdx)
  \/ \E frame \in Frames : calculateDifference(frame) \/ calculateDifference_item2(frame)
  \/ \E w \in Workers, frameIdx \in Frames : cacheFrame_begin(w, frameIdx)

\* C7 as stated: invalidateAllBuffers, called and running with no cacheFrame
\* call executing, emits signalUpdateFrameLimits and returns with the cache
\* empty, the current-frame slot (null, -1) and requestedFrame_idx -1; this
\* lasts until the next cacheFrame or drawFrame call.
C7_UntilCacheFrameOrDraw ==
  [][ /\ (invalidateAllBuffers_clearCache /\ rAlone) =>
            /\ Invalidated'
            /\ emitted'[Renderer] = <<Sig("signalUpdateFrameLimits", 0, 0)>>
      /\ sinceInvalidate' => Invalidated'
    ]_vars

\* C7, amended: invalidateAllBuffers, called and running with no cacheFrame
\* call executing, emits signalUpdateFrameLimits and returns with the cache
\* empty, the current-frame slot (null, -1) and requestedFrame_idx -1; this
\* lasts until the next call that loads a frame: cacheFrame, drawFrame, or
\* calculateDifference (which calls loadFrame).
C7_InvalidateAll ==
  [][ /\ (invalidateAllBuffers_clearCache /\ rAlone) =>
            /\ Invalidated'
            /\ emitted'[Renderer] = <<Sig("signalUpdateFrameLimits", 0, 0)>>
      /\ (Invalidated /\ NoCacheFrameInFlight /\ GuiIdle /\ ~CallStep) => Invalidated'
    ]_vars

\* invalidateAllBuffers has just run after the producer had filled its buffer.
C7_Witness ==
  /\ sinceInvalidate
  /\ emitted[Renderer] = <<Sig("signalUpdateFrameLimits", 0, 0)>>
  /\ Invalidated
  /\ NoCacheFrameInFlight
  /\ ~isNull(requestedFrame)

\* C8: slotVideoControlChanged (here: called after the producer has filled
\* its buffer, no cacheFrame call executing before or during the call) leaves
\* the state invalidateAllBuffers leaves and has emitted
\* signalUpdateFrameLimits and signalHandlerChanged(true, true).
C8_ControlChangedSuperset ==
  [][ (/\ ~isNull(requestedFrame) /\ rAlone
       /\ slotVideoControlChanged_clearCache) =>
        /\ Invalidated'
        /\ emitted'[Renderer] = <<Sig("signalUpdateFrameLimits", 0, 0),
                                  Sig("signalHandlerChanged", 1, 1)>>
    ]_vars

\* C9: a cacheFrame(i) call made when i is in the cache (as after a first
\* call that succeeded) returns at once, leaves the cache and the producer's
\* buffer as they are and requests no frame; and a call that inserts i has
\* requested i exactly once and puts exactly its image at i.
C9_CacheFrameIdempotent ==
  [][ \A w \in Workers :
        /\ \A frameIdx \in Frames :
             (cacheFrame_begin(w, frameIdx) /\ isInCache(frameIdx)) =>
                /\ wpc'[w] = "idle"
                /\ emitted'[w] = <<>>
                /\ UNCHANGED <<imageCache, cachingFramesMutices, requestedFrame,
                               requestedFrame_idx, pendingStart>>
        /\ (cacheFrame_insert(w) /\ ~isNull(cacheImage[w])) =>
                /\ Cardinality(Requests(emitted[w], 1)) = 1
                /\ DOMAIN imageCache' = DOMAIN imageCache \cup {wFrame[w]}
                /\ imageCache'[wFrame[w]] = cacheImage[w]
                /\ \A k \in DOMAIN imageCache \ {wFrame[w]} : imageCache'[k] = imageCache[k]
    ]_vars

\* cacheFrame was called twice and nothing else: one call cached its frame,
\* the other found it in the cache and returned.
C9_Witness ==
  /\ returnedCached
  /\ callsLeft = MaxCalls - 2
  /\ NoCacheFrameInFlight /\ GuiIdle
  /\ Cardinality(DOMAIN imageCache) = 1
  /\ pendingStart = 1
  /\ emitted[Renderer] = <<>>
  /\ ~timerActive

\* C10: removefromCache(i), i >= 0, takes i out of the cache and leaves the
\* other entries and the current-frame slot as they are; removefromCache(-1)
\* empties the cache.
C10_RemoveFromCache ==
  [][ \A idx \in Frames \cup {-1} :
        removefromCache(idx) =>
          /\ idx >= 0 => /\ idx \notin DOMAIN imageCache'
                         /\ DOMAIN imageCache' = DOMAIN imageCache \ {idx}
                         /\ \A k \in DOMAIN imageCache' : imageCache'[k] = imageCache[k]
          /\ idx = -1 => imageCache' = <<>>
          /\ UNCHANGED <<currentImage, currentImageIdx>>
    ]_vars

\* cacheFrame has cached a frame and removefromCache has taken it out again.
C10_Witness ==
  /\ emitted[Renderer] = <<Sig("cachingTimerStart", 0, 0)>>
  /\ NoCacheFrameInFlight
  /\ imageCache = <<>>
  /\ callsLeft = MaxCalls - 2
  /\ pendingStart = 1
  /\ ~producerFailed

\* A drawFrame call returns: the step that ends it.
drawFrame_return == rCall = "drawFrame" /\ rpc' = "idle"

\* C11: a drawFrame(i) whose foreground request is deferred (requestedFrame_idx
\* is not i when the request returns) leaves the current-frame slot and the
\* cache as they are and returns with loadingInBackground set; and the next
\* drawFrame(i) (nothing else being called meanwhile) requests i in the
\* foreground again and, when the producer answers, returns with the image of
\* i in the current-frame slot, its index i, and loadingInBackground cleared.
C11_DeferredThenRetried ==
  [][ /\ (rCall = "drawFrame" /\ rpc = "request" /\ rpc' # "request"
          /\ requestedFrame_idx' # rFrame) =>
            /\ drawFrame_return
            /\ UNCHANGED <<currentImage, currentImageIdx, imageCache>>
            /\ loadingInBackground'
      /\ (rRetry /\ rAlone /\ drawFrame_return) =>
            /\ Cardinality(Requests(emitted'[Renderer], 0)) = 1
            /\ emitted'[Renderer][1] = Sig("signalRequestFrame", rFrame, 0)
            /\ (rpc = "copyRequested") =>
                  /\ currentImage' = Image(rFrame, frameSize)
                  /\ currentImageIdx' = rFrame
                  /\ ~loadingInBackground'
    ]_vars

\* The producer deferred a drawFrame, and answered the request of the next
\* drawFrame of the same frame, which is about to take the image.
C11_Witness ==
  /\ rRetry /\ rAlone
  /\ rpc = "copyRequested"
  /\ requestedFrame = Image(rFrame, frameSize)
  /\ producerFailed
  /\ callsLeft = MaxCalls - 2

\* C12: a drawFrame(i) of a frame that is in the cache and is not the current
\* one puts (imageCache[i], i) into the current-frame slot, blits it, leaves
\* the cache and the registry of frames being cached as they are, and
\* requests no frame.
C12_CacheHit ==
  [][ \A frameIdx \in Frames :
        (drawFrame_begin(frameIdx) /\ isInCache(frameIdx) /\ frameIdx # currentImageIdx) =>
          /\ currentImage' = imageCache[frameIdx]
          /\ currentImageIdx' = frameIdx
          /\ ~loadingInBackground'
          /\ UNCHANGED <<imageCache, cachingFramesMutices, requestedFrame, requestedFrame_idx>>
          /\ emitted'[Renderer] = <<Sig("drawImage", frameIdx, imageCache[frameIdx].geom)>>
          /\ rpc' = "idle"
    ]_vars

\* A frame was cached, the queued arm of the timer was delivered, and then a
\* drawFrame of that frame took it from the cache.
C12_Witness ==
  /\ callsLeft = MaxCalls - 2
  /\ timerActive /\ pendingStart = 0
  /\ GuiIdle /\ NoCacheFrameInFlight
  /\ currentImageIdx \in DOMAIN imageCache
  /\ currentImage = imageCache[currentImageIdx]
  /\ emitted[Renderer] = <<Sig("drawImage", currentImageIdx, currentImage.geom)>>

\* C13: a drawFrame(i) called when i is neither current nor cached and no
\* cacheFrame call is executing (so nothing is registered), and running with
\* no cacheFrame call beside it, the producer answering every request, emits
\* exactly one signalRequestFrame(i, false), returns with the image of i and
\* the index i in the current-frame slot, and leaves the cache and the
\* registry as they are.
C13_ForegroundMiss ==
  [][ (drawFrame_return /\ rAlone /\ ~producerFailed') =>
        /\ Requests(emitted'[Renderer], 0) # {}
        /\ Cardinality(Requests(emitted'[Renderer], 0)) = 1
        /\ currentImage' = Image(rFrame, frameSize)
        /\ currentImageIdx' = rFrame
        /\ UNCHANGED <<imageCache, cachingFramesMutices>>
    ]_vars

\* C14: the event of the caching timer that follows the caching of a frame
\* emits signalHandlerChanged with redraw = false and info changed = true, and
\* nothing else.
C14_TimerEventArgs ==
  [][ (growthPending /\ timerEvent) => emitted'[Renderer] = <<Sig("signalHandlerChanged", 0, 1)>> ]_vars

\* Worker w has registered frame i and not yet taken it out of the registry.
WorkerCaching(w, i) ==
  /\ wFrame[w] = i
  /\ wpc[w] \in {"lockRequest", "request", "checkRequested", "insert", "unlockFrame",
                 "relockRegistry"}

\* C15: a frame index is in the registry exactly when a decode of it is in
\* progress (by a worker that registered it, or by the renderer in loadFrame),
\* and the mutex of every registered index is locked by the one worker that
\* registered it, until that worker takes the index out.
C15_RegistryInvariant ==
  \A i \in Frames :
    /\ (i \in DOMAIN cachingFramesMutices)
          <=> (RendererDecoding(i) \/ \E w \in Workers : WorkerCaching(w, i))
    /\ (i \in DOMAIN cachingFramesMutices) =>
          /\ Cardinality({w \in Workers : WorkerCaching(w, i)}) = 1
          /\ \E w \in Workers : WorkerCaching(w, i) /\ cachingFramesMutices[i] = w

\* The renderer is blocked on the mutex of the frame it draws.
RendererBlockedOnLatch ==
  /\ rpc = "waitCaching"
  /\ cachingFramesMutices[rFrame] # Free

\* C16: the renderer is never blocked on the mutex of a frame being cached
\* while it holds the registry mutex.
C16_RegistryReleasedBeforeWait ==
  RendererBlockedOnLatch => cachingFramesMuticesAccess # Renderer

\* The next step of the thread copies the producer's buffer out: loadFrame's
\* copy into currentImage (line 277, here in a drawFrame and of a buffer the
\* producer has filled) and loadFrameForCaching's test and copy (lines
\* 290-294).
RendererReadsBuffer ==
  rCall = "drawFrame" /\ rpc = "copyRequested" /\ ~isNull(requestedFrame)
WorkerReadsBuffer(w) == wpc[w] = "checkRequested"

\* C17: whoever is about to copy the producer's buffer out holds the producer
\* gate.
C17_ReadsUnderGate ==
  /\ RendererReadsBuffer => requestDataMutex = Renderer
  /\ \A w \in Workers : WorkerReadsBuffer(w) => requestDataMutex = w

\* The current-frame slot is as the last drawFrame left it, and that drawFrame
\* requested its frame in the foreground and took the producer's buffer.
SlotFromRequest ==
  /\ GuiIdle
  /\ currentImageIdx >= 0 /\ ~isNull(currentImage)
  /\ Len(emitted[Renderer]) = 2
  /\ emitted[Renderer][1] = Sig("signalRequestFrame", currentImageIdx, 0)
  /\ emitted[Renderer][2].sig = "drawImage"

\* C18: the image in the current-frame slot (here: put there by a drawFrame
\* whose own request was answered) is the image of the frame the slot's index
\* names; and every image in the cache is the image of the frame it is keyed
\* by.
C18_ImagesMatchIndex ==
  /\ SlotFromRequest => currentImage.frame = currentImageIdx
  /\ \A i \in DOMAIN imageCache : imageCache[i].frame = i

\* C19: a cacheFrame(i) that finds requestedFrame_idx not i after its request
\* gets no image and inserts nothing, and goes on to unlock the frame's mutex
\* and to take i out of the registry; whenever no cacheFrame call is executing
\* the registry is empty, so that a later cacheFrame(i) registers i and
\* requests it again and a later drawFrame(i) goes to loadFrame and does not
\* wait.
C19_FailedDecodeCleansUp ==
  [][ /\ \A w \in Workers :
            /\ (loadFrameForCaching_copy(w) /\ requestedFrame_idx # wFrame[w]) =>
                   /\ isNull(cacheImage'[w])
                   /\ wpc'[w] = "insert"
            /\ (cacheFrame_insert(w) /\ isNull(cacheImage[w])) =>
                   /\ UNCHANGED imageCache
                   /\ wpc'[w] = "unlockFrame"
            /\ cacheFrame_deregister(w) =>
                   /\ wFrame[w] \notin DOMAIN cachingFramesMutices'
                   /\ wpc'[w] = "idle"
            /\ (cacheFrame_register(w) /\ cachingFramesMutices = <<>>) =>
                   wpc'[w] = "lockRequest"
      /\ (drawFrame_checkRegistry /\ cachingFramesMutices = <<>>) => rpc' = "loadFrame"
      /\ NoCacheFrameInFlight' => cachingFramesMutices' = <<>>
    ]_vars

\* A cacheFrame call failed and returned, nothing was cached, and a later
\* cacheFrame call has registered its frame and is requesting it.
C19_Witness ==
  /\ producerFailed
  /\ callsLeft = MaxCalls - 2
  /\ pendingStart = 1
  /\ imageCache = <<>>
  /\ GuiIdle
  /\ \E w \in Workers : wpc[w] = "request" /\ DOMAIN cachingFramesMutices = {wFrame[w]}

\* The mutex a thread is about to lock, by its position: the owner of that
\* mutex when it is locked by somebody, else Free.
WaitsFor(t) ==
  IF t = Renderer
    THEN CASE rpc = "lockRegistry" -> cachingFramesMuticesAccess
           [] rpc = "waitCaching"  -> cachingFramesMutices[rFrame]
           [] rpc = "lockRequest"  -> requestDataMutex
           [] OTHER -> Free
    ELSE CASE wpc[t] \in {"lockRegistry", "relockRegistry"} -> cachingFramesMuticesAccess
           [] wpc[t] = "lockRequest" -> requestDataMutex
           [] OTHER -> Free

\* The thread reached from t by following WaitsFor n times (Free: the chain
\* ended at a thread that can run).
RECURSIVE WaitChain(_, _)
WaitChain(t, n) ==
  IF n = 0 \/ t = Free THEN t ELSE WaitChain(WaitsFor(t), n - 1)

CyclicWait == \E t \in Threads : \E n \in 1 .. Cardinality(Threads) : WaitChain(t, n) = t

\* Thread t holds the mutex of some registered frame.
HoldsLatch(t) == \E i \in DOMAIN cachingFramesMutices : cachingFramesMutices[i] = t
\* Thread t is about to lock the registry mutex.
WantsRegistry(t) ==
  IF t = Renderer THEN rpc = "lockRegistry"
                  ELSE wpc[t] \in {"lockRegistry", "relockRegistry"}

LockOrder == \A t \in Threads : WantsRegistry(t) => ~HoldsLatch(t)

\* C20: no thread locks the registry mutex while it holds the mutex of a
\* frame; no threads wait for each other in a cycle; and (threads, event loop
\* and producer being fair) every drawFrame and every cacheFrame call returns:
\* again and again no thread is inside a call.
C20_DeadlockFree ==
  /\ [](LockOrder /\ ~CyclicWait)
  /\ []<>(rpc = "idle" /\ \A w \in Workers : wpc[w] = "idle")

\* The renderer holds the registry mutex and waits for the mutex of its frame;
\* the worker that holds it is at its request, inside the producer gate.
C20_Witness ==
  /\ rpc = "waitCaching"
  /\ cachingFramesMuticesAccess = Renderer
  /\ \E w \in Workers : /\ cachingFramesMutices[rFrame] = w
                         /\ wpc[w] = "request"
                         /\ requestDataMutex = w
====
